---- MODULE Spec2Model ----
(***************************************************************************)
(* A model of the rewriting core of rustfmt: the ChangeSet of              *)
(* src/src/changes.rs (position index, per-file buffers, write_file and    *)
(* write_all_files) and the FmtVisitor of src/src/visitor.rs (the write    *)
(* cursor last_pos, block_indent and the visit_* handlers).                *)
(*                                                                         *)
(* The specifications share the variables:                                 *)
(*   SpecSpans    filespans_for_span applied to bounded indexes and spans  *)
(*   SpecBuffers  push_str, push_str_span, get_mut, cur_offset and         *)
(*                append_newlines on the buffers of two files              *)
(*   SpecWrite    write_all_files / write_file over a small file system    *)
(*   SpecNewline  write_file on one file with every short buffer           *)
(*   SpecVisit    the visitor driven over nodes supplied in source order   *)
(*   SpecAttrs    visit_attrs / rewrite_attrs on attribute lists with the  *)
(*                source text between the attributes                       *)
(***************************************************************************)
EXTENDS Integers, Sequences, FiniteSets, TLC

VARIABLES
    \* ---- ChangeSet (changes.rs:27-31)
    file_spans,    \* Vec<(u32, u32)>, sorted by from_codemap
    file_map,      \* HashMap<String, StringBuffer>: file name -> sequence of chars
    b_last,        \* the last call on the buffer store: its arguments and outcome
    a_call,        \* one call of visit_attrs: the attribute list, the source around it, the outcome
    \* ---- one call of filespans_for_span
    q_lo, q_hi,    \* the arguments start.0 and end.0
    q_checks,      \* TRUE: the build panics on integer overflow; FALSE: it wraps
    q_pc,          \* "call" before the call, "ret" after it
    q_ret,         \* what the call produced
    \* ---- write_all_files / write_file
    w_mode,        \* WriteMode
    w_style,       \* config!(newline_style)
    fs,            \* the file system: path -> [exists, data]
    fs0,           \* the file system when write_all_files was entered
    fs1,           \* the file system when the current write_file was entered
    stdout,        \* what was printed, one entry per print call
    w_pc,          \* position inside write_all_files / write_file
    w_cur,         \* the file name write_file is working on
    w_todo,        \* keys of file_map the loop of write_all_files has not reached
    w_done,        \* file names whose write_file returned Ok, in order
    w_result,      \* the HashMap built by write_all_files, as a set of (name, text)
    w_ret,         \* what write_all_files returned: nothing yet, Ok(map) or Err
    w_failed,      \* the step of write_file that failed ("" when none did)
    \* ---- FmtVisitor (visitor.rs:20-26) and the traversal around it
    last_pos,      \* the write cursor
    block_indent,  \* the current indent
    v_status,      \* "ok", or "panic" after a failed assertion or overflow check
    stack,         \* the visits that have descended into their children
    src_pos,       \* where the traversal is in the source: the next node starts here or later
    cover,         \* per original offset: how it reached the buffer so far
    steps,         \* the values last_pos took during the last handler, in order
    events,        \* what the last handler did to buffer, cursor and indent, in order
    marked,        \* offsets of the items that carried the skip marker
    last_visit,    \* what the last item-like visit did
    last_exit      \* block_indent before and after the last completed scope visit

vars == << file_spans, file_map, b_last, a_call, q_lo, q_hi, q_checks, q_pc, q_ret,
           w_mode, w_style, fs, fs0, fs1, stdout, w_pc, w_cur, w_todo, w_done,
           w_result, w_ret, w_failed,
           last_pos, block_indent, v_status, stack, src_pos, cover, steps,
           events, marked, last_visit, last_exit >>

spanVars  == << file_spans, q_lo, q_hi, q_checks, q_pc, q_ret >>
writeVars == << w_mode, w_style, fs, fs0, fs1, stdout, w_pc, w_cur, w_todo,
                w_done, w_result, w_ret, w_failed >>
visitVars == << last_pos, block_indent, v_status, stack, src_pos, cover, steps,
                events, marked, last_visit, last_exit >>

Min(a, b) == IF a <= b THEN a ELSE b

Range(s) == { s[i] : i \in 1..Len(s) }

(***************************************************************************)
(* Position index: ChangeSet::filespans_for_span.                          *)
(***************************************************************************)

\* Bounds of the indexes and spans drawn for filespans_for_span.
MaxOff == 4
MaxFiles == 2

\* u32::MAX.  TLC's integers stop at 2^31 - 1, which stands for 2^32 - 1 here:
\* every modelled offset is far below both, so every comparison and every min
\* against it comes out as it does against 2^32 - 1.
U32Max == 2147483647

\* The order of (u32, u32) tuples: lexicographic.
TupleLess(a, b) == a[1] < b[1] \/ (a[1] = b[1] /\ a[2] < b[2])

\* [T]::binary_search on a sorted vector: Ok(i) for an element equal to the key,
\* otherwise Err(i) with i the number of elements below the key.  Indices are
\* 0-based as in the code.
binary_search(v, key) ==
    IF \E i \in 1..Len(v) : v[i] = key
    THEN [ok |-> TRUE,  i |-> (CHOOSE i \in 1..Len(v) : v[i] = key) - 1]
    ELSE [ok |-> FALSE, i |-> Cardinality({ i \in 1..Len(v) : TupleLess(v[i], key) })]

\* `cur_file.1 - 1` on u32: an underflow panics when overflow checks are on
\* and wraps otherwise.
SubOne(x, checks) ==
    IF x >= 1 THEN [panic |-> FALSE, v |-> x - 1]
    ELSE IF checks THEN [panic |-> TRUE, v |-> 0]
    ELSE [panic |-> FALSE, v |-> U32Max]

\* The starting index (changes.rs:66-70).
StartIdx(v, lo) ==
    LET r == binary_search(v, <<lo, U32Max>>)
    IN  IF r.ok THEN r.i ELSE IF r.i = 0 THEN 0 ELSE r.i - 1

\* result.push without the test that the piece is not empty.
push_always(result, s, e) == Append(result, <<s, e>>)

\* if start < end { result.push((start, end)) } (changes.rs:79-81, 86-88).
push_piece(result, s, e) == IF s < e THEN Append(result, <<s, e>>) ELSE result

\* The loop (changes.rs:74-90).  idx is 0-based; n counts the iterations;
\* under says whether `cur_file.1 - 1` was computed for a cur_file.1 of 0.
RECURSIVE SpanLoop(_, _, _, _, _, _, _, _)
SpanLoop(v, idx, start, hi, result, n, checks, under) ==
    IF idx >= Len(v)
    THEN [res |-> "oob", pieces |-> result, iters |-> n + 1, under |-> under]
    ELSE
    LET cur_file == v[idx + 1]
        idx1 == idx + 1
    IN  IF idx1 >= Len(v) \/ start >= hi
        THEN [res |-> "ok",
              pieces |-> push_piece(result, start, hi),
              iters |-> n + 1, under |-> under]
        ELSE LET sub  == SubOne(cur_file[2], checks)
                 end  == Min(sub.v, hi)
                 res1 == push_piece(result, start, end)
             IN  IF sub.panic
                 THEN [res |-> "overflow", pieces |-> result, iters |-> n + 1,
                       under |-> TRUE]
                 ELSE SpanLoop(v, idx1, v[idx1 + 1][1], hi, res1, n + 1, checks,
                               under \/ cur_file[2] = 0)

\* The assertion left out.
assert_skipped(lo, hi) == TRUE

\* assert!(start.0 <= end.0) (changes.rs:58).
assert_ordered(lo, hi) == lo <= hi

\* ChangeSet::filespans_for_span.  res is "ok" when the call returned pieces,
\* "assert" when assert!(start.0 <= end.0) failed, "overflow" when the u32
\* subtraction panicked, "oob" when an index was out of bounds.
filespans_for_span(v, lo, hi, checks) ==
    IF ~assert_ordered(lo, hi)
    THEN [res |-> "assert", pieces |-> <<>>, iters |-> 0, under |-> FALSE]
    ELSE IF Len(v) = 0
    THEN [res |-> "ok", pieces |-> <<>>, iters |-> 0, under |-> FALSE]
    ELSE SpanLoop(v, StartIdx(v, lo), lo, hi, <<>>, 0, checks, FALSE)

\* The indexes from_codemap can build: sorted (changes.rs:52) ranges of files
\* that do not overlap; a file may be empty and files may leave gaps.
FileRanges == { <<s, e>> : s \in 0..MaxOff, e \in 0..MaxOff }

IsIndex(v) ==
    /\ \A i \in 1..Len(v) : v[i][1] <= v[i][2]
    /\ \A i \in 1..(Len(v) - 1) : v[i][2] <= v[i + 1][1]

\* The index of the specification's example: A = [0,10), B = [10,25).
ExampleIndex == << <<0, 10>>, <<10, 25>> >>

Indexes ==
    { v \in UNION { [1..n -> FileRanges] : n \in 0..MaxFiles } : IsIndex(v) }
        \cup { ExampleIndex }

\* The spans asked for: every pair of small offsets, one past the last offset
\* included, and the example's [5,20).
SpanArgs == { <<lo, hi>> : lo \in 0..(MaxOff + 1), hi \in 0..(MaxOff + 1) }
                \cup { <<5, 20>> }

NoRet == [res |-> "none", pieces |-> <<>>, iters |-> 0, under |-> FALSE]

\* The parts of the state a specification does not use stay as they are here.
IdleIndex ==
    /\ file_spans = <<>> /\ q_lo = 0 /\ q_hi = 0
    /\ q_pc = "idle" /\ q_ret = NoRet

IdleSpans == IdleIndex /\ q_checks = TRUE

InitSpans ==
    /\ file_spans \in Indexes
    /\ \E a \in SpanArgs : q_lo = a[1] /\ q_hi = a[2]
    /\ q_checks \in BOOLEAN
    /\ q_pc = "call"
    /\ q_ret = NoRet

\* One call of filespans_for_span.
CallFilespans ==
    /\ q_pc = "call"
    /\ q_ret' = filespans_for_span(file_spans, q_lo, q_hi, q_checks)
    /\ q_pc' = "ret"
    /\ UNCHANGED << file_spans, q_lo, q_hi, q_checks, file_map, b_last, a_call, writeVars, visitVars >>

Returned == q_pc = "ret" /\ q_ret.res = "ok"

Pieces == q_ret.pieces

\* Offsets of a half-open range.
Offs(lo, hi) == { o \in lo..(hi - 1) : TRUE }

PieceOffs == UNION { Offs(Pieces[i][1], Pieces[i][2]) : i \in 1..Len(Pieces) }

InFile(o) == \E i \in 1..Len(file_spans) : file_spans[i][1] <= o /\ o < file_spans[i][2]

\* C3: for a sorted non-overlapping index and a span [lo,hi) with lo <= hi whose
\* offsets all lie in files, the pieces returned are in order, pairwise disjoint
\* and their union is [lo,hi); and with A = [0,10), B = [10,25) the span [5,20)
\* resolves to [(5,10),(10,20)].
C3_PiecesCoverSpan ==
    Returned =>
        /\ (\A o \in Offs(q_lo, q_hi) : InFile(o)) =>
              /\ \A i \in 1..(Len(Pieces) - 1) : Pieces[i][2] <= Pieces[i + 1][1]
              /\ PieceOffs = Offs(q_lo, q_hi)
        /\ (file_spans = ExampleIndex /\ q_lo = 5 /\ q_hi = 20) =>
              Pieces = << <<5, 10>>, <<10, 20>> >>

\* C4: every piece returned for a span with lo <= hi lies inside exactly one
\* file's [start,end) range, also when lo is before the first file's start or
\* hi is beyond the last file's end.
C4_PiecesFileBounded ==
    Returned =>
        \A i \in 1..Len(Pieces) :
            Cardinality({ j \in 1..Len(file_spans) :
                            /\ file_spans[j][1] <= Pieces[i][1]
                            /\ Pieces[i][2] <= file_spans[j][2] }) = 1

(***************************************************************************)
(* Emission: ChangeSet::write_all_files and ChangeSet::write_file.         *)
(***************************************************************************)

\* The longest buffer drawn for the newline rendering.
MaxLen == 3

\* The characters a buffer is made of: an ordinary one, line feed, carriage return.
Chars == { "x", "\n", "\r" }

Texts(n) == UNION { [1..k -> Chars] : k \in 0..n }

Modes == { "Overwrite", "NewFile", "Display", "Return" }
Styles == { "Unix", "Windows" }

\* The paths write_file touches for a file name: the name itself, name + ".tmp",
\* name + ".bk" and name + "." + extn.
Suffixes == { "", ".tmp", ".bk", ".new" }
Path(name, suffix) == <<name, suffix>>

NoFile == [exists |-> FALSE, data |-> <<>>]
FileOf(d) == [exists |-> TRUE, data |-> d]

\* What is on disk under a source file's name before formatting.
Orig(name) == <<"orig", name>>

\* write_system_newlines without the arm that drops a carriage return.
RECURSIVE WindowsNewlinesKeepCR(_)
WindowsNewlinesKeepCR(text) ==
    IF text = <<>> THEN <<>>
    ELSE LET c == Head(text)
             rest == WindowsNewlinesKeepCR(Tail(text))
         IN  IF c = "\n" THEN <<"\r", "\n">> \o rest
             ELSE <<c>> \o rest

\* The Windows arm of write_system_newlines (changes.rs:161-170): char by char.
RECURSIVE WindowsNewlines(_)
WindowsNewlines(text) ==
    IF text = <<>> THEN <<>>
    ELSE LET c == Head(text)
             rest == WindowsNewlines(Tail(text))
         IN  IF c = "\n" THEN <<"\r", "\n">> \o rest
             ELSE IF c = "\r" THEN rest
             ELSE <<c>> \o rest

\* write_system_newlines (changes.rs:153-172): what a writer receives.
write_system_newlines(text, style) ==
    IF style = "Unix" THEN text ELSE WindowsNewlines(text)

\* try! inside write_file: go on after Ok, return the error after Err.
TryStepIgnore(ok, next) == next

TryStep(ok, next) == IF ok THEN next ELSE "err"

\* try! around write_file in write_all_files (changes.rs:137).
AfterFileIgnore(ok) == "loop"

AfterFile(ok) == IF ok THEN "loop" ELSE "done"

\* std::fs::rename as a copy that leaves the source in place.
RenameKeepSource(f, from, to) == [f EXCEPT ![to] = f[from]]

\* std::fs::rename(from, to): the target is replaced, the source is gone.
Rename(f, from, to) == [f EXCEPT ![to] = f[from], ![from] = NoFile]

NotReturned == [kind |-> "none", map |-> {}]

IdleWrite ==
    /\ w_mode = "Return" /\ w_style = "Unix"
    /\ fs = << >> /\ fs0 = << >> /\ fs1 = << >> /\ stdout = <<>>
    /\ w_pc = "idle" /\ w_cur = "" /\ w_todo = {} /\ w_done = <<>>
    /\ w_result = {} /\ w_ret = NotReturned /\ w_failed = ""

\* write_all_files is entered (changes.rs:135): the files of `names` are on disk
\* with their original content, their buffers hold texts of `texts`; `stale`
\* says whether an earlier run left .bk and .tmp files behind.
InitWriteWith(names, texts) ==
    /\ file_map \in [names -> texts]
    /\ w_mode \in Modes
    /\ w_style \in Styles
    /\ \E stale \in BOOLEAN :
          fs = [p \in names \X Suffixes |->
                  IF p[2] = "" THEN FileOf(Orig(p[1]))
                  ELSE IF stale /\ p[2] \in {".bk", ".tmp"} THEN FileOf(<<"stale">>)
                  ELSE NoFile]
    /\ fs0 = fs /\ fs1 = fs
    /\ stdout = <<>>
    /\ w_pc = "loop" /\ w_cur = "" /\ w_todo = names /\ w_done = <<>>
    /\ w_result = {} /\ w_ret = NotReturned /\ w_failed = ""

\* write_file returned: Ok(r) is taken up by write_all_files (changes.rs:137-140),
\* an Err ends write_all_files.  r is <<>> for None and <<text>> for Some(text).
FileReturns(ok, r, step) ==
    /\ w_pc' = AfterFile(ok)
    /\ w_failed' = IF ok THEN w_failed ELSE step
    /\ w_ret' = IF AfterFile(ok) = "done" THEN [kind |-> "err", map |-> {}] ELSE w_ret
    /\ w_done' = IF ok THEN Append(w_done, w_cur) ELSE w_done
    /\ w_result' = IF ok /\ r # <<>> THEN w_result \cup { <<w_cur, r[1]>> } ELSE w_result

\* A step of write_file that is followed by another one.
StepOn(ok, next, step) ==
    LET n == TryStep(ok, next)
    IN  IF n = "err"
        THEN FileReturns(FALSE, <<>>, step)
        ELSE /\ w_pc' = n
             /\ w_failed' = IF ok THEN w_failed ELSE step
             /\ UNCHANGED << w_ret, w_done, w_result >>

\* The loop of write_all_files takes the next key, in HashMap order (any), and
\* write_file starts on it (changes.rs:136-137, 150, 174).
NextFile ==
    /\ w_pc = "loop" /\ w_todo # {}
    /\ \E f \in w_todo :
          /\ w_cur' = f
          /\ w_todo' = w_todo \ {f}
    /\ fs1' = fs
    /\ w_pc' = CASE w_mode = "Overwrite" -> "create"
                  [] w_mode = "NewFile"   -> "create"
                  [] w_mode = "Display"   -> "display"
                  [] w_mode = "Return"    -> "return"
    /\ UNCHANGED << file_map, b_last, a_call, spanVars, visitVars, w_mode, w_style, fs, fs0, stdout, w_done, w_result, w_ret, w_failed >>

\* The text written over the original file itself, without a temporary file.
CreateTargetInPlace == Path(w_cur, "")

\* File::create (changes.rs:183, 192): a new empty file, or a truncated one.
CreateTarget ==
    IF w_mode = "Overwrite" THEN Path(w_cur, ".tmp") ELSE Path(w_cur, ".new")

Create ==
    /\ w_pc = "create"
    /\ \E ok \in BOOLEAN :
          /\ fs' = IF ok THEN [fs EXCEPT ![CreateTarget] = FileOf(<<>>)] ELSE fs
          /\ StepOn(ok, "write", "create")
    /\ UNCHANGED << file_map, b_last, a_call, spanVars, visitVars, w_mode, w_style, fs0, fs1, stdout, w_cur, w_todo >>

\* write_system_newlines into the created file (changes.rs:184, 193); a failed
\* write leaves some proper prefix of the text in the file.
Write ==
    /\ w_pc = "write"
    /\ LET text == write_system_newlines(file_map[w_cur], w_style)
       IN  \/ /\ fs' = [fs EXCEPT ![CreateTarget] = FileOf(text)]
              /\ IF w_mode = "Overwrite"
                 THEN StepOn(TRUE, "rename1", "write")
                 ELSE FileReturns(TRUE, <<>>, "write")
           \/ /\ \E k \in 0..Len(text) :
                    /\ k < Len(text) \/ k = 0
                    /\ fs' = [fs EXCEPT ![CreateTarget] = FileOf(SubSeq(text, 1, k))]
              /\ StepOn(FALSE, "rename1", "write")
    /\ UNCHANGED << file_map, b_last, a_call, spanVars, visitVars, w_mode, w_style, fs0, fs1, stdout, w_cur, w_todo >>

\* rename(filename, bk_name) (changes.rs:187); it fails when the source is missing.
Rename1 ==
    /\ w_pc = "rename1"
    /\ \E ok \in BOOLEAN :
          /\ ok => fs[Path(w_cur, "")].exists
          /\ fs' = IF ok THEN Rename(fs, Path(w_cur, ""), Path(w_cur, ".bk")) ELSE fs
          /\ StepOn(ok, "rename2", "rename1")
    /\ UNCHANGED << file_map, b_last, a_call, spanVars, visitVars, w_mode, w_style, fs0, fs1, stdout, w_cur, w_todo >>

\* rename(tmp_name, filename) (changes.rs:188), then Ok(None) (changes.rs:210).
Rename2 ==
    /\ w_pc = "rename2"
    /\ \E ok \in BOOLEAN :
          /\ ok => fs[Path(w_cur, ".tmp")].exists
          /\ fs' = IF ok THEN Rename(fs, Path(w_cur, ".tmp"), Path(w_cur, "")) ELSE fs
          /\ FileReturns(TryStep(ok, "ok") = "ok", <<>>, "rename2")
    /\ UNCHANGED << file_map, b_last, a_call, spanVars, visitVars, w_mode, w_style, fs0, fs1, stdout, w_cur, w_todo >>

\* WriteMode::Display (changes.rs:195-200): the header, then the text.
Display ==
    /\ w_pc = "display"
    /\ LET text == write_system_newlines(file_map[w_cur], w_style)
           hdr  == <<"hdr", w_cur, <<>> >>
       IN  \E ok \in BOOLEAN :
             /\ stdout' = IF ok THEN stdout \o << hdr, <<"txt", w_cur, text>> >>
                          ELSE Append(stdout, hdr)
             /\ FileReturns(TryStep(ok, "ok") = "ok", <<>>, "display")
    /\ UNCHANGED << file_map, b_last, a_call, spanVars, visitVars, w_mode, w_style, fs, fs0, fs1, w_cur, w_todo >>

\* write_file's Return arm with Ok(None) in place of the string.
ReturnedTextDropped(text) == <<>>

\* Ok(Some(String::from_utf8(v).unwrap())) (changes.rs:206).
ReturnedText(text) == <<text>>

\* WriteMode::Return (changes.rs:201-207): the text goes to a Vec<u8>, which
\* never fails, and comes back as Some(String).
Return ==
    /\ w_pc = "return"
    /\ LET text == write_system_newlines(file_map[w_cur], w_style)
       IN  FileReturns(TryStep(TRUE, "ok") = "ok", ReturnedText(text), "return")
    /\ UNCHANGED << file_map, b_last, a_call, spanVars, visitVars, w_mode, w_style, fs, fs0, fs1, stdout, w_cur, w_todo >>

\* The loop is over: Ok(result) (changes.rs:143).
Finish ==
    /\ w_pc = "loop" /\ w_todo = {}
    /\ w_pc' = "done"
    /\ w_ret' = [kind |-> "ok", map |-> w_result]
    /\ UNCHANGED << file_map, b_last, a_call, spanVars, visitVars, w_mode, w_style, fs, fs0, fs1, stdout, w_cur, w_todo, w_done,
                    w_result, w_failed >>

NextWrite ==
    \/ NextFile \/ Create \/ Write \/ Rename1 \/ Rename2
    \/ Display \/ Return \/ Finish

(***************************************************************************)
(* The visitor: FmtVisitor of visitor.rs.                                  *)
(*                                                                         *)
(* The syntax tree is the input.  It is supplied node by node in source    *)
(* order: src_pos is the end of the last node the traversal has left, a    *)
(* node starts at src_pos or later and ends inside the node that contains  *)
(* it, and an item's attributes precede its span.  A handler that walks    *)
(* into children (visit_block, and visit_item for a module, impl or trait) *)
(* is two actions, one up to the first child and one after the last; every *)
(* other handler is one action.                                            *)
(***************************************************************************)

\* The length of the source text; offsets are 0..MaxPos-1.
MaxPos == 7
\* How many visits may be open at once.
MaxDepth == 3
\* The longest attribute list of an item.
MaxAttrs == 2

\* config!(tab_spaces).
TabSpaces == 4

\* config!(max_width) and config!(ideal_width): a narrow configuration, so that
\* MaxDepth scopes of TabSpaces each reach it.
MaxWidth == 10
IdealWidth == 8

Offsets == 0..(MaxPos - 1)

\* The visitor's state as a handler threads it through its calls.
V0 == [last_pos |-> last_pos, cover |-> cover, steps |-> <<last_pos>>,
       status |-> v_status, indent |-> block_indent, ev |-> <<>>]

\* Offsets lo..hi-1 reach the buffer as `tag`: "gap" for flushed original text,
\* "node" for the text a handler writes for a span.  An offset that had reached
\* the buffer before is "dup".
Mark(c, lo, hi, tag) ==
    [o \in DOMAIN c |->
        IF lo <= o /\ o < hi
        THEN (IF c[o] = "none" THEN tag ELSE "dup")
        ELSE c[o]]

\* self.last_pos = p.
set_last_pos(v, p) ==
    IF v.status # "ok" THEN v
    ELSE [v EXCEPT !.last_pos = p, !.steps = Append(@, p),
                   !.ev = Append(@, <<"cursor", p>>)]

\* changes.push_str_span(span, text) with the text a handler made for [lo,hi).
push_str_span(v, lo, hi) ==
    IF v.status # "ok" THEN v
    ELSE [v EXCEPT !.cover = Mark(@, lo, hi, "node"),
                   !.ev = Append(@, <<"push", lo, hi>>)]

\* format_missing(end): the gap from the cursor to `end` is flushed if it is not
\* empty, and the cursor is then at `end`; a cursor beyond `end` is an inverted
\* span, which fails fast.
format_missing(v, end) ==
    IF v.status # "ok" \/ v.last_pos = end THEN v
    ELSE IF v.last_pos > end THEN [v EXCEPT !.status = "panic"]
    ELSE [v EXCEPT !.cover = Mark(@, v.last_pos, end, "gap"),
                   !.last_pos = end,
                   !.steps = Append(@, end),
                   !.ev = Append(@, <<"flush", v.last_pos, end>>)]

\* format_missing_with_indent(end): the same gap, followed by the current indent.
format_missing_with_indent(v, end) ==
    IF v.status # "ok" \/ v.last_pos = end THEN v
    ELSE IF v.last_pos > end THEN [v EXCEPT !.status = "panic"]
    ELSE [v EXCEPT !.cover = Mark(@, v.last_pos, end, "gap"),
                   !.last_pos = end,
                   !.steps = Append(@, end),
                   !.ev = Append(@, <<"flush_indent", v.last_pos, end, v.indent>>)]

\* changes.cur_offset_span(span) (visitor.rs:34): the length of the buffer's
\* last line.  It is the indent right after format_missing_with_indent flushed
\* a gap; otherwise the line ends in text this model does not hold (-1).
cur_offset_span(v) ==
    IF v.ev # <<>> /\ v.ev[Len(v.ev)][1] = "flush_indent" THEN v.indent ELSE -1

\* `width - used` on usize (visitor.rs:35, 159, 160): below zero it panics in a
\* build with overflow checks and wraps in one without; the event keeps the
\* mathematical difference.
minus(v, width, used) ==
    IF v.status # "ok" \/ used < 0 THEN v
    ELSE IF used > width /\ q_checks
    THEN [v EXCEPT !.status = "panic", !.ev = Append(@, <<"budget", width - used>>)]
    ELSE [v EXCEPT !.ev = Append(@, <<"budget", width - used>>)]

\* visit_expr (visitor.rs:29-38).
visit_expr(v, lo, hi) ==
    LET v1 == format_missing(v, lo)
        v2 == minus(v1, MaxWidth, cur_offset_span(v1))
    IN  set_last_pos(push_str_span(v2, lo, hi), hi)

\* rewrite_attrs returns None: some attribute is the skip marker
\* (visitor.rs:294-297, is_skip at 329-334).
rewrite_attrs_none(attrs) == \E i \in 1..Len(attrs) : attrs[i].skip

\* visit_attrs (visitor.rs:271-288): the visitor after it, and what it returns.
visit_attrs(v, attrs) ==
    IF Len(attrs) = 0 THEN [v |-> v, skip |-> FALSE]
    ELSE LET first == attrs[1]
             last  == attrs[Len(attrs)]
             v1    == format_missing_with_indent(v, first.lo)
         IN  IF rewrite_attrs_none(attrs)
             THEN [v |-> v1, skip |-> TRUE]
             ELSE [v |-> set_last_pos(push_str_span(v1, first.lo, last.hi), last.hi),
                   skip |-> FALSE]

\* visit_stmt decides whether the statement's gap is left to the item
\* (visitor.rs:45-56).
skip_missing(kind) == kind = "item"

visit_stmt_missing(v, kind, lo) ==
    IF skip_missing(kind) THEN v ELSE format_missing_with_indent(v, lo)

\* self.block_indent += config!(tab_spaces) (visitor.rs:68, 180).
indent_in(n) == n + TabSpaces

\* The closing of a scope with the decrement left out.
indent_out_forgotten(n) == n

\* self.block_indent -= config!(tab_spaces) (visitor.rs:81, 182) on usize;
\* -1 stands for an underflow.
indent_out(n) == IF n >= TabSpaces THEN n - TabSpaces ELSE -1

\* visit_block with the cursor stepped back instead of forward after the brace.
visit_block_open_back(v, b_lo) ==
    LET v1 == push_str_span(format_missing(v, b_lo), b_lo, b_lo + 1)
    IN  set_last_pos(v1, v1.last_pos - 1)

\* visit_block up to the first statement, without the indent (visitor.rs:64-67).
visit_block_open(v, b_lo) ==
    LET v1 == push_str_span(format_missing(v, b_lo), b_lo, b_lo + 1)
    IN  set_last_pos(v1, v1.last_pos + 1)

\* visit_block after the last statement, without the indent (visitor.rs:73-85):
\* e is <<>> or <<lo, hi>>, the trailing expression.
visit_block_tail(v, e) ==
    IF e = <<>> THEN v
    ELSE visit_expr(format_missing_with_indent(v, e[1]), e[1], e[2])

visit_block_close(v, b_hi) ==
    set_last_pos(push_str_span(format_missing_with_indent(v, b_hi - 1), b_hi - 1, b_hi),
                 b_hi)

\* self.block_indent += config!(tab_spaces) (visitor.rs:68).
raise_indent(v) ==
    IF v.status # "ok" THEN v
    ELSE [v EXCEPT !.indent = indent_in(@),
                   !.ev = Append(@, <<"indent", indent_in(v.indent)>>)]

\* self.block_indent -= config!(tab_spaces) (visitor.rs:81).
lower_indent(v) ==
    IF v.status # "ok" THEN v
    ELSE IF indent_out(v.indent) < 0 THEN [v EXCEPT !.status = "underflow"]
    ELSE [v EXCEPT !.indent = indent_out(@),
                   !.ev = Append(@, <<"indent", indent_out(v.indent)>>)]

\* visit_block is entered for the block [lo,hi) / has visited its statements.
enter_block(v, lo, hi) ==
    [v EXCEPT !.ev = Append(@, <<"visit_block", lo, hi, v.last_pos, v.indent>>)]

stmts_done(v, lo, hi, e) ==
    [v EXCEPT !.ev = Append(@, <<"stmts_done", lo, hi, e, v.last_pos, v.indent>>)]

\* visit_block with the indent raised before the brace is written.
visit_block_head_indent_first(v, b_lo) == visit_block_open(raise_indent(v), b_lo)

\* visit_block up to the first statement (visitor.rs:64-68).
visit_block_head(v, b_lo) == raise_indent(visit_block_open(v, b_lo))

\* visit_block after the last statement (visitor.rs:73-85).
visit_block_end(v, e, b_hi) ==
    visit_block_close(lower_indent(visit_block_tail(v, e)), b_hi)

\* visit_fn up to visit_block (visitor.rs:96-135).
visit_fn(v, fk, s_lo, b_lo) ==
    LET v1 == set_last_pos(format_missing_with_indent(v, s_lo), s_lo)
        v2 == IF fk \in {"FkItemFn", "FkMethod"}
              THEN push_str_span(v1, s_lo, b_lo)
              ELSE v1
    IN  set_last_pos(v2, b_lo)

\* The second match of visit_item (visitor.rs:153-202) for the kinds that
\* do not open a scope; e is <<>> or the span of the expression walk_item reaches.
visit_item_node(v, kind, lo, hi, e) ==
    CASE kind = "use_list" ->
            LET v1 == format_missing_with_indent(v, lo)
                v2 == minus(v1, MaxWidth, v1.indent)
                v3 == minus(v2, IdealWidth, v2.indent)
            IN  set_last_pos(push_str_span(v3, lo, hi), hi)
      [] kind = "use_glob" ->
            format_missing_with_indent(v, lo)
      [] kind = "extern_crate" ->
            set_last_pos(push_str_span(format_missing_with_indent(v, lo), lo, hi), hi)
      [] kind = "struct" ->
            set_last_pos(push_str_span(format_missing_with_indent(v, lo), lo, hi), hi)
      [] OTHER ->
            IF e = <<>> THEN v ELSE visit_expr(v, e[1], e[2])

\* visit_trait_item after the attributes (visitor.rs:210-224).
visit_trait_item_node(v, kind, lo, hi) ==
    IF kind = "required"
    THEN set_last_pos(push_str_span(format_missing_with_indent(v, lo), lo, hi), hi)
    ELSE v

\* Whether visit_item looks at the attributes (visitor.rs:144-151).
looks_at_attrs(kind) == kind # "mod"

\* visit_mod that walks into every module, whatever file its body is in.
visit_mod_walks_all(v, inline, depth) ==
    [v |-> [v EXCEPT !.ev = Append(@, <<"visit_mod", inline, v.last_pos, depth, v.cover>>)],
     walks |-> TRUE]

\* visit_mod (visitor.rs:238-245): `inline` says that the file of s.lo is the
\* file of m.inner.lo; walks says whether walk_mod is called.  `depth` is the
\* number of visits open when it is entered.
visit_mod(v, inline, depth) ==
    [v |-> [v EXCEPT !.ev = Append(@, <<"visit_mod", inline, v.last_pos, depth, v.cover>>)],
     walks |-> inline]

\* ---- the nodes supplied to the visitor

Ctx == IF stack = <<>> THEN "top" ELSE stack[Len(stack)].kind

\* Children of the open node end before its closing brace.
Limit == IF stack = <<>> THEN MaxPos ELSE stack[Len(stack)].hi - 1

Attrs(from, to) ==
    { [lo |-> l, hi |-> h, skip |-> k] :
        l \in from..to, h \in from..to, k \in BOOLEAN }

\* Attribute lists of at most n attributes inside [from,to], in source order.
RECURSIVE AttrSeqs(_, _, _)
AttrSeqs(from, to, n) ==
    IF n = 0 THEN { <<>> }
    ELSE { <<>> } \cup
         UNION { { <<a>> \o t : t \in AttrSeqs(a.hi, to, n - 1) } :
                 a \in { x \in Attrs(from, to) : x.lo < x.hi } }

\* Where an item with these attributes may start.
AfterAttrs(attrs) == IF attrs = <<>> THEN src_pos ELSE attrs[Len(attrs)].hi

\* Non-empty spans inside [from,to].
Spans(from, to) == { p \in (from..to) \X (from..to) : p[1] < p[2] }

\* The expression a walk may reach inside [from,to]: none, or one.
OptExpr(from, to) == { <<>> } \cup Spans(from, to)

\* The offsets of an item together with its attributes.
ItemOffs(attrs, hi) ==
    IF attrs = <<>> THEN {} ELSE { o \in Offsets : attrs[1].lo <= o /\ o < hi }

ItemKinds == { "use_list", "use_glob", "extern_crate", "struct", "other" }
ScopeKinds == { "mod", "impl", "trait" }
StmtKinds == { "expr", "semi", "local", "mac" }

\* ---- the state after a handler

Apply(v) ==
    /\ last_pos' = v.last_pos
    /\ cover' = v.cover
    /\ steps' = v.steps
    /\ events' = v.ev
    /\ v_status' = v.status

Visited(attrs, suppressed, returned, before, after) ==
    [marked |-> rewrite_attrs_none(attrs), suppressed |-> suppressed,
     returned |-> returned, before |-> before, after |-> after]

NoVisit == [marked |-> FALSE, suppressed |-> FALSE, returned |-> FALSE,
            before |-> 0, after |-> 0]

Frame(kind, lo, hi) == [kind |-> kind, lo |-> lo, hi |-> hi, indent0 |-> block_indent]

Pop == SubSeq(stack, 1, Len(stack) - 1)

IdleVisit ==
    /\ last_pos = 0 /\ block_indent = 0 /\ v_status = "idle" /\ stack = <<>>
    /\ src_pos = 0 /\ cover = << >> /\ steps = <<>> /\ events = <<>> /\ marked = {}
    /\ last_visit = NoVisit /\ last_exit = [before |-> 0, after |-> 0, n |-> 0]

\* FmtVisitor::from_codemap (visitor.rs:249-256).
InitVisit ==
    /\ last_pos = 0 /\ block_indent = 0 /\ v_status = "ok" /\ stack = <<>>
    /\ src_pos = 0
    /\ cover = [o \in Offsets |-> "none"]
    /\ steps = <<0>>
    /\ events = <<>>
    /\ marked = {}
    /\ last_visit = NoVisit
    /\ last_exit = [before |-> 0, after |-> 0, n |-> 0]

\* The gap visit_stmt leaves to an item that is a statement.
ItemEntry(lo) == IF Ctx = "block" THEN visit_stmt_missing(V0, "item", lo) ELSE V0

\* visit_item for an item that opens no scope and is no function
\* (visitor.rs:139-203), also reached from visit_stmt for an item statement.
VisitItem ==
    /\ v_status = "ok" /\ Ctx \in {"top", "mod", "block"}
    /\ \E kind \in ItemKinds, attrs \in AttrSeqs(src_pos, Limit, MaxAttrs) :
       \E sp \in Spans(AfterAttrs(attrs), Limit) :
       \E e \in IF kind = "other" THEN OptExpr(sp[1] + 1, sp[2]) ELSE { <<>> } :
          LET r == visit_attrs(ItemEntry(sp[1]), attrs)
              v == IF r.skip THEN r.v
                   ELSE visit_item_node(r.v, kind, sp[1], sp[2], e)
          IN  /\ Apply(v)
              /\ src_pos' = sp[2]
              /\ marked' = IF rewrite_attrs_none(attrs)
                            THEN marked \cup ItemOffs(attrs, sp[2]) ELSE marked
              /\ last_visit' = Visited(attrs, r.skip, TRUE, block_indent, block_indent)
    /\ UNCHANGED << block_indent, stack, last_exit >>
    /\ UNCHANGED << file_map, b_last, a_call, spanVars, writeVars >>

\* visit_item for a module, impl or trait up to its first child
\* (visitor.rs:144-151, 177-181, and visit_mod at 238-245); a module whose body
\* is in another file is left at once.
VisitScope ==
    /\ v_status = "ok" /\ Ctx \in {"top", "mod", "block"}
    /\ Len(stack) < MaxDepth
    /\ \E kind \in ScopeKinds, attrs \in AttrSeqs(src_pos, Limit, MaxAttrs),
          inline \in BOOLEAN :
       \E sp \in Spans(AfterAttrs(attrs), Limit) :
          LET r == IF looks_at_attrs(kind) THEN visit_attrs(ItemEntry(sp[1]), attrs)
                   ELSE [v |-> ItemEntry(sp[1]), skip |-> FALSE]
              m == visit_mod(r.v, inline, Len(stack))
              descends == ~r.skip /\ (kind = "mod" => m.walks)
              after == IF r.skip THEN block_indent
                       ELSE indent_out(indent_in(block_indent))
          IN  /\ kind # "mod" => inline
              /\ descends => sp[2] >= sp[1] + 2
              /\ Apply(IF kind = "mod" THEN m.v ELSE r.v)
              /\ marked' = IF rewrite_attrs_none(attrs)
                            THEN marked \cup ItemOffs(attrs, sp[2]) ELSE marked
              /\ IF descends
                 THEN /\ block_indent' = indent_in(block_indent)
                      /\ stack' = Append(stack, Frame(kind, sp[1], sp[2]))
                      /\ src_pos' = sp[1] + 1
                      /\ last_visit' = Visited(attrs, FALSE, FALSE, block_indent, block_indent)
                 ELSE /\ block_indent' = after
                      /\ stack' = stack
                      /\ src_pos' = sp[2]
                      /\ last_visit' = Visited(attrs, r.skip, TRUE, block_indent, after)
    /\ UNCHANGED << last_exit >>
    /\ UNCHANGED << file_map, b_last, a_call, spanVars, writeVars >>

\* visit_item for a module, impl or trait after its last child (visitor.rs:182).
LeaveScope ==
    /\ v_status = "ok" /\ Ctx \in ScopeKinds
    /\ LET f == stack[Len(stack)]
           n == indent_out(block_indent)
       IN  /\ block_indent' = IF n < 0 THEN block_indent ELSE n
           /\ v_status' = IF n < 0 THEN "underflow" ELSE v_status
           /\ stack' = Pop
           /\ src_pos' = f.hi
           /\ last_exit' = [before |-> f.indent0, after |-> block_indent',
                            n |-> Len(stack)]
    /\ steps' = <<last_pos>>
    /\ events' = <<>>
    /\ UNCHANGED << last_pos, cover, marked, last_visit >>
    /\ UNCHANGED << file_map, b_last, a_call, spanVars, writeVars >>

FnKinds == { "FkItemFn", "FkMethod", "FkFnBlock" }

\* Where each FnKind is visited: a function item wherever items are, a method
\* in an impl or trait, a closure where expressions are.
FnCtx(fk) ==
    CASE fk = "FkItemFn"  -> Ctx \in {"top", "mod", "block"}
      [] fk = "FkMethod"  -> Ctx \in {"impl", "trait"}
      [] fk = "FkFnBlock" -> Ctx = "block"

\* A function with a body: the item, impl item or trait item around it looks at
\* the attributes (visitor.rs:147, 206, 228), then visit_fn (visitor.rs:90-137)
\* and visit_block up to the first statement (visitor.rs:60-68).  The function
\* spans [s_lo, hi), its body [b_lo, hi).
VisitFn ==
    /\ v_status = "ok"
    /\ Len(stack) < MaxDepth
    /\ \E fk \in FnKinds :
       /\ FnCtx(fk)
       /\ \E attrs \in IF fk = "FkFnBlock" THEN { <<>> }
                        ELSE AttrSeqs(src_pos, Limit, MaxAttrs) :
          \E sp \in Spans(AfterAttrs(attrs), Limit) :
          \E b_lo \in (sp[1] + 1)..(sp[2] - 2) :
             LET entry == IF fk = "FkItemFn" THEN ItemEntry(sp[1]) ELSE V0
                 r == visit_attrs(entry, attrs)
                 v == IF r.skip THEN r.v
                      ELSE visit_block_head(
                               enter_block(visit_fn(r.v, fk, sp[1], b_lo), b_lo, sp[2]),
                               b_lo)
             IN  /\ Apply(v)
                 /\ marked' = IF rewrite_attrs_none(attrs)
                               THEN marked \cup ItemOffs(attrs, sp[2]) ELSE marked
                 /\ IF r.skip
                    THEN /\ block_indent' = block_indent
                         /\ stack' = stack
                         /\ src_pos' = sp[2]
                         /\ last_visit' = Visited(attrs, TRUE, TRUE, block_indent, block_indent)
                    ELSE /\ block_indent' = v.indent
                         /\ stack' = Append(stack, Frame("block", b_lo, sp[2]))
                         /\ src_pos' = b_lo + 1
                         /\ last_visit' = Visited(attrs, FALSE, FALSE, block_indent, block_indent)
    /\ UNCHANGED << last_exit >>
    /\ UNCHANGED << file_map, b_last, a_call, spanVars, writeVars >>

\* visit_block after its last statement (visitor.rs:73-85).
LeaveBlock ==
    /\ v_status = "ok" /\ Ctx = "block"
    /\ \E e \in OptExpr(src_pos, Limit) :
          LET f  == stack[Len(stack)]
              v2 == visit_block_end(stmts_done(V0, f.lo, f.hi, e), e, f.hi)
          IN  /\ Apply(v2)
              /\ block_indent' = v2.indent
              /\ stack' = Pop
              /\ src_pos' = f.hi
              /\ last_exit' = [before |-> f.indent0, after |-> block_indent',
                               n |-> Len(stack)]
    /\ UNCHANGED << marked, last_visit >>
    /\ UNCHANGED << file_map, b_last, a_call, spanVars, writeVars >>

\* The expression walk_stmt reaches in a statement [lo,hi) of each kind.
StmtExprs(kind, lo, hi) ==
    CASE kind = "expr"  -> { <<lo, hi>> }
      [] kind = "semi"  -> IF hi - lo >= 2 THEN { <<lo, hi - 1>> } ELSE {}
      [] kind = "local" -> OptExpr(lo + 1, hi)
      [] kind = "mac"   -> { <<>> }

\* visit_stmt for a statement that is no item (visitor.rs:40-58).
VisitStmt ==
    /\ v_status = "ok" /\ Ctx = "block"
    /\ \E kind \in StmtKinds, sp \in Spans(src_pos, Limit) :
       \E e \in StmtExprs(kind, sp[1], sp[2]) :
          LET v1 == visit_stmt_missing(V0, kind, sp[1])
              v2 == IF e = <<>> THEN v1 ELSE visit_expr(v1, e[1], e[2])
          IN  /\ Apply(v2)
              /\ src_pos' = sp[2]
    /\ UNCHANGED << block_indent, stack, marked, last_visit, last_exit >>
    /\ UNCHANGED << file_map, b_last, a_call, spanVars, writeVars >>

\* visit_trait_item for an item without a body (visitor.rs:205-225).
VisitTraitItem ==
    /\ v_status = "ok" /\ Ctx = "trait"
    /\ \E kind \in {"required", "other"}, attrs \in AttrSeqs(src_pos, Limit, MaxAttrs) :
       \E sp \in Spans(AfterAttrs(attrs), Limit) :
          LET r == visit_attrs(V0, attrs)
              v == IF r.skip THEN r.v
                   ELSE visit_trait_item_node(r.v, kind, sp[1], sp[2])
          IN  /\ Apply(v)
              /\ src_pos' = sp[2]
              /\ marked' = IF rewrite_attrs_none(attrs)
                            THEN marked \cup ItemOffs(attrs, sp[2]) ELSE marked
              /\ last_visit' = Visited(attrs, r.skip, TRUE, block_indent, block_indent)
    /\ UNCHANGED << block_indent, stack, last_exit >>
    /\ UNCHANGED << file_map, b_last, a_call, spanVars, writeVars >>

\* visit_impl_item for an item that is no method (visitor.rs:227-232); e is the
\* expression walk_impl_item reaches, if any.
VisitImplItem ==
    /\ v_status = "ok" /\ Ctx = "impl"
    /\ \E attrs \in AttrSeqs(src_pos, Limit, MaxAttrs) :
       \E sp \in Spans(AfterAttrs(attrs), Limit) :
       \E e \in OptExpr(sp[1] + 1, sp[2]) :
          LET r == visit_attrs(V0, attrs)
              v == IF r.skip \/ e = <<>> THEN r.v
                   ELSE visit_expr(r.v, e[1], e[2])
          IN  /\ Apply(v)
              /\ src_pos' = sp[2]
              /\ marked' = IF rewrite_attrs_none(attrs)
                            THEN marked \cup ItemOffs(attrs, sp[2]) ELSE marked
              /\ last_visit' = Visited(attrs, r.skip, TRUE, block_indent, block_indent)
    /\ UNCHANGED << block_indent, stack, last_exit >>
    /\ UNCHANGED << file_map, b_last, a_call, spanVars, writeVars >>

(***************************************************************************)
(* The buffer store: ChangeSet::push_str, push_str_span, get_mut,          *)
(* cur_offset and append_newlines.                                         *)
(***************************************************************************)

\* The longest buffer built.
MaxBuf == 3
\* The longest text of one append.
MaxPush == 2

\* The files of the CodeMap the ChangeSet is built from: name and byte range.
CodeMapFiles == << [name |-> "a", lo |-> 0, hi |-> 2],
                   [name |-> "b", lo |-> 2, hi |-> 4] >>

CodeMapNames == { CodeMapFiles[i].name : i \in 1..Len(CodeMapFiles) }

\* The file names a caller may pass: those of the CodeMap and one it does not have.
CallerNames == CodeMapNames \cup { "z" }

\* The spans a caller may pass: one offset of either file, and a span from the
\* first file into the second.
CallerSpans == { <<lo, lo + 1>> : lo \in 0..3 } \cup { <<1, 3>> }

\* The characters appended: an ordinary one and the line feed.
BufChars == { "x", "\n" }

BufTexts(n) == UNION { [1..k -> BufChars] : k \in 0..n }

\* codemap.span_to_filename(span) (changes.rs:99, 112): the file that holds span.lo.
span_to_filename(lo) ==
    LET i == CHOOSE i \in 1..Len(CodeMapFiles) :
                \/ CodeMapFiles[i].lo <= lo /\ lo < CodeMapFiles[i].hi
                \/ i = Len(CodeMapFiles) /\ lo >= CodeMapFiles[i].hi
    IN  CodeMapFiles[i].name

\* A lookup that makes an empty entry for a name it does not know.
lookup_or_insert(m, name) ==
    IF name \in DOMAIN m THEN [found |-> TRUE, map |-> m]
    ELSE [found |-> TRUE, map |-> [n \in DOMAIN m \cup {name} |->
                                     IF n = name THEN <<>> ELSE m[n]]]

\* file_map.get_mut(name).unwrap() and file_map[name] (changes.rs:94, 104, 108):
\* the entry, or a panic for a name that is no key; the map stays as it is.
lookup(m, name) == [found |-> name \in DOMAIN m, map |-> m]

\* StringBuffer::push_str with the text put in place of the content.
buf_push_str_replace(old, text) == text

\* StringBuffer::push_str (changes.rs:95, 128): the text goes to the end.
buf_push_str(old, text) == old \o text

\* StringBuffer::cur_offset (changes.rs:108): the length of the last line.
RECURSIVE buf_cur_offset(_)
buf_cur_offset(buf) ==
    IF buf = <<>> \/ buf[Len(buf)] = "\n" THEN 0
    ELSE 1 + buf_cur_offset(SubSeq(buf, 1, Len(buf) - 1))

\* ChangeSet::push_str (changes.rs:93-96) on the map m.
push_str(m, name, text) ==
    LET r == lookup(m, name)
    IN  IF r.found
        THEN [res |-> "ok", map |-> [r.map EXCEPT ![name] = buf_push_str(@, text)]]
        ELSE [res |-> "panic", map |-> r.map]

\* ChangeSet::append_newlines (changes.rs:126-130).
append_newlines(m) == [n \in DOMAIN m |-> buf_push_str(m[n], <<"\n">>)]

NoCall == [op |-> "none", name |-> "", text |-> <<>>, before |-> << >>,
           res |-> "ok", ret |-> 0]

Call(op, name, text, res, ret) ==
    [op |-> op, name |-> name, text |-> text, before |-> file_map,
     res |-> res, ret |-> ret]

\* No call of visit_attrs on source text has been made.
NoAttrsCall == [pc |-> "idle", kinds |-> <<>>, gaps |-> <<>>, lead |-> 0, indent |-> 0,
                skip |-> FALSE, text |-> <<>>, last_pos |-> 0, ev |-> <<>>]

IdleBuffers == b_last = NoCall /\ a_call = NoAttrsCall

\* ChangeSet::from_codemap (changes.rs:35-55): an empty buffer for every file.
InitBuffers ==
    /\ file_map = [n \in CodeMapNames |-> <<>>]
    /\ b_last = NoCall

\* A panic ends the process; the buffers are kept within MaxBuf characters.
Running == b_last.res = "ok"

Fits(m) == \A n \in DOMAIN m : Len(m[n]) <= MaxBuf

PushStr ==
    /\ Running
    /\ \E name \in CallerNames, text \in BufTexts(MaxPush) :
          LET r == push_str(file_map, name, text)
          IN  /\ Fits(r.map)
              /\ file_map' = r.map
              /\ b_last' = Call("push_str", name, text, r.res, 0)
    /\ UNCHANGED << a_call, spanVars, writeVars, visitVars >>

\* ChangeSet::push_str_span (changes.rs:98-101).
PushStrSpan ==
    /\ Running
    /\ \E sp \in CallerSpans, text \in BufTexts(MaxPush) :
          LET name == span_to_filename(sp[1])
              r == push_str(file_map, name, text)
          IN  /\ Fits(r.map)
              /\ file_map' = r.map
              /\ b_last' = Call("push_str_span", name, text, r.res, 0)
    /\ UNCHANGED << a_call, spanVars, writeVars, visitVars >>

\* ChangeSet::get_mut (changes.rs:103-105): a reference to the buffer.
GetMut ==
    /\ Running
    /\ \E name \in CallerNames :
          LET r == lookup(file_map, name)
          IN  /\ file_map' = r.map
              /\ b_last' = Call("get_mut", name, <<>>,
                                IF r.found THEN "ok" ELSE "panic", 0)
    /\ UNCHANGED << a_call, spanVars, writeVars, visitVars >>

\* ChangeSet::cur_offset (changes.rs:107-109).
CurOffset ==
    /\ Running
    /\ \E name \in CallerNames :
          LET r == lookup(file_map, name)
          IN  /\ file_map' = r.map
              /\ b_last' = Call("cur_offset", name, <<>>,
                                IF r.found THEN "ok" ELSE "panic",
                                IF r.found THEN buf_cur_offset(r.map[name]) ELSE 0)
    /\ UNCHANGED << a_call, spanVars, writeVars, visitVars >>

AppendNewlines ==
    /\ Running
    /\ Fits(append_newlines(file_map))
    /\ file_map' = append_newlines(file_map)
    /\ b_last' = Call("append_newlines", "", <<"\n">>, "ok", 0)
    /\ UNCHANGED << a_call, spanVars, writeVars, visitVars >>

NextBuffers == PushStr \/ PushStrSpan \/ GetMut \/ CurOffset \/ AppendNewlines

(***************************************************************************)
(* Attributes: FmtVisitor::visit_attrs and rewrite_attrs on source text.   *)
(***************************************************************************)

\* The longest attribute list and the longest gap between two attributes.
MaxAttrList == 2
MaxGap == 3

\* The characters between attributes: blank, line feed, a character of a comment.
GapChars == { " ", "\n", "c" }

GapTexts == UNION { [1..k -> GapChars] : k \in 0..MaxGap }

\* An attribute is the skip marker, a doc comment (its text starts with "//")
\* or another attribute.
AttrKinds == { "skip", "doc", "plain" }

\* The indents a call is made with.
Indents == { 0, 2 }

IsBlank(c) == c \in { " ", "\n" }

RECURSIVE trim_left(_)
trim_left(t) ==
    IF t # <<>> /\ IsBlank(Head(t)) THEN trim_left(Tail(t)) ELSE t

RECURSIVE trim_right(_)
trim_right(t) ==
    IF t # <<>> /\ IsBlank(t[Len(t)]) THEN trim_right(SubSeq(t, 1, Len(t) - 1)) ELSE t

\* str::trim (visitor.rs:307).
trim(t) == trim_right(trim_left(t))

\* utils::make_indent (visitor.rs:292): `n` blanks.
make_indent(n) == [i \in 1..n |-> " "]

\* comment.matches('\n').count() (visitor.rs:306).
newlines(t) == Cardinality({ i \in 1..Len(t) : t[i] = "\n" })

\* self.snippet(a.span) (visitor.rs:299): the text of the i-th attribute, one token.
a_str(i) == << <<"attr", i>> >>

\* The loop of rewrite_attrs (visitor.rs:294-323) for the attributes from i on;
\* kinds[i] is the kind of the i-th attribute, gaps[i] the source between the
\* (i-1)-th and the i-th.
RECURSIVE rewrite_attrs_from(_, _, _, _, _)
rewrite_attrs_from(kinds, gaps, indent, i, result) ==
    IF i > Len(kinds) THEN [none |-> FALSE, text |-> result]
    ELSE IF kinds[i] = "skip" THEN [none |-> TRUE, text |-> <<>>]
    ELSE
    LET multi_line == kinds[i] = "doc" /\ newlines(gaps[i]) > 1
        comment == trim(gaps[i])
        r1 == IF i = 1 THEN result
              ELSE IF Len(comment) > 0
                   THEN result \o make_indent(indent) \o comment \o <<"\n">>
                               \o make_indent(indent)
              ELSE IF multi_line
                   THEN result \o <<"\n">> \o make_indent(indent)
              ELSE result \o make_indent(indent)
        r2 == r1 \o a_str(i)
        r3 == IF i < Len(kinds) THEN r2 \o <<"\n">> ELSE r2
    IN  rewrite_attrs_from(kinds, gaps, indent, i + 1, r3)

\* rewrite_attrs (visitor.rs:290-326).
rewrite_attrs(kinds, gaps, indent) == rewrite_attrs_from(kinds, gaps, indent, 1, <<>>)

\* The spans of the attributes in the source: `lead` characters come before the
\* first, an attribute is one offset long, gaps[i] lies before the i-th.
RECURSIVE attr_spans(_, _, _, _)
attr_spans(kinds, gaps, i, pos) ==
    IF i > Len(kinds) THEN <<>>
    ELSE LET lo == pos + (IF i = 1 THEN 0 ELSE Len(gaps[i]))
         IN  << [lo |-> lo, hi |-> lo + 1, skip |-> kinds[i] = "skip"] >>
                 \o attr_spans(kinds, gaps, i + 1, lo + 1)

\* The attribute lists a call is made with.
InitAttrs ==
    \E n \in 0..MaxAttrList :
    \E kinds \in [1..n -> AttrKinds], gaps \in [1..n -> GapTexts],
       lead \in 0..1, indent \in Indents :
        /\ n >= 1 => gaps[1] = <<>>
        /\ a_call = [NoAttrsCall EXCEPT !.pc = "call", !.kinds = kinds, !.gaps = gaps,
                                        !.lead = lead, !.indent = indent]

\* visit_attrs (visitor.rs:271-288) from a cursor at offset 0.
VisitAttrs ==
    /\ a_call.pc = "call"
    /\ LET spans == attr_spans(a_call.kinds, a_call.gaps, 1, a_call.lead)
           size  == IF spans = <<>> THEN a_call.lead ELSE spans[Len(spans)].hi
           v     == [last_pos |-> 0, cover |-> [o \in 0..size |-> "none"],
                     steps |-> <<0>>, status |-> "ok", indent |-> a_call.indent,
                     ev |-> <<>>]
           r     == visit_attrs(v, spans)
           t     == rewrite_attrs(a_call.kinds, a_call.gaps, a_call.indent)
       IN  a_call' = [a_call EXCEPT !.pc = "ret", !.skip = r.skip,
                                    !.text = IF r.skip \/ spans = <<>> THEN <<>> ELSE t.text,
                                    !.last_pos = r.v.last_pos, !.ev = r.v.ev]
    /\ UNCHANGED << file_map, b_last, spanVars, writeVars, visitVars >>

NextAttrs == VisitAttrs

(***************************************************************************)
(* Specifications.                                                         *)
(***************************************************************************)

\* The file names of a batch.
Names == { "a", "b", "c" }

\* The buffers of a batch.
BatchTexts == { <<>>, <<"x", "\n">>, <<"\r", "\n", "x">> }

InitSpansOnly == InitSpans /\ file_map = << >> /\ IdleBuffers /\ IdleWrite /\ IdleVisit

InitVisitOnly ==
    /\ InitVisit /\ file_map = << >> /\ IdleBuffers /\ IdleIndex /\ IdleWrite
    /\ q_checks \in BOOLEAN

InitWriteOnly == InitWriteWith(Names, BatchTexts) /\ IdleBuffers /\ IdleSpans /\ IdleVisit

\* One file with every buffer up to MaxLen characters.
InitNewlineOnly == InitWriteWith({ "a" }, Texts(MaxLen)) /\ IdleBuffers /\ IdleSpans /\ IdleVisit

NextSpans == CallFilespans

NextVisit ==
    \/ VisitItem \/ VisitScope \/ LeaveScope \/ VisitFn \/ LeaveBlock
    \/ VisitStmt \/ VisitTraitItem \/ VisitImplItem

InitBuffersOnly ==
    InitBuffers /\ a_call = NoAttrsCall /\ IdleSpans /\ IdleWrite /\ IdleVisit

InitAttrsOnly ==
    InitAttrs /\ file_map = << >> /\ b_last = NoCall /\ IdleSpans /\ IdleWrite /\ IdleVisit

SpecAttrs == InitAttrsOnly /\ [][NextAttrs]_vars

SpecBuffers == InitBuffersOnly /\ [][NextBuffers]_vars

SpecSpans == InitSpansOnly /\ [][NextSpans]_vars

SpecVisit == InitVisitOnly /\ [][NextVisit]_vars

SpecWrite == InitWriteOnly /\ [][NextWrite]_vars

SpecNewline == InitNewlineOnly /\ [][NextWrite]_vars

Spec == SpecVisit

(***************************************************************************)
(* Properties.                                                              *)
(***************************************************************************)

Count(t, c) == Cardinality({ i \in 1..Len(t) : t[i] = c })

NotCR(c) == c # "\r"

\* What write_file wrote for file f in the mode of the batch.
Out(f) ==
    CASE w_mode = "Overwrite" -> { fs[Path(f, "")].data }
      [] w_mode = "NewFile"   -> { fs[Path(f, ".new")].data }
      [] w_mode = "Display"   -> { e[3] : e \in { x \in Range(stdout) : x[1] = "txt" /\ x[2] = f } }
      [] w_mode = "Return"    -> { p[2] : p \in { q \in w_result : q[1] = f } }

NewlinesRendered(buf, out) ==
    IF w_style = "Unix" THEN out = buf
    ELSE /\ \A i \in 1..Len(out) : out[i] = "\r" => (i < Len(out) /\ out[i + 1] = "\n")
         /\ \A i \in 1..Len(out) : out[i] = "\n" => (i > 1 /\ out[i - 1] = "\r")
         /\ \A i \in 1..(Len(out) - 2) :
                ~(out[i] = "\r" /\ out[i + 1] = "\r" /\ out[i + 2] = "\n")
         /\ Count(out, "\n") = Count(buf, "\n")
         /\ SelectSeq(out, NotCR) = SelectSeq(buf, NotCR)

\* C7: in every output mode, the text write_file emits for a buffer has, with
\* Windows style, one "\r\n" for each '\n' of the buffer, none of the buffer's
\* '\r', no "\r\r\n" and no '\r' that is not followed by '\n', and every other
\* character as in the buffer; with Unix style it is the buffer.
C7_NewlineRendering ==
    \A f \in Range(w_done) :
        /\ Out(f) # {}
        /\ \A t \in Out(f) : NewlinesRendered(file_map[f], t)

C7_Witness ==
    /\ w_style = "Windows" /\ w_mode = "Display"
    /\ \E f \in Range(w_done) : file_map[f] = <<"\r", "\n", "\r">>

Existing(f) == { x \in Suffixes : fs[Path(f, x)].exists }

\* C8: after write_file(name, Overwrite) returned Ok, name.bk holds what name
\* held before the call, name holds the rendered buffer, name.tmp does not
\* exist, and name.bk is the only artifact beside name.
C8_OverwriteLeavesBackup ==
    w_mode = "Overwrite" =>
        \A f \in Range(w_done) :
            /\ fs[Path(f, ".bk")] = FileOf(Orig(f))
            /\ fs[Path(f, "")] = FileOf(write_system_newlines(file_map[f], w_style))
            /\ ~fs[Path(f, ".tmp")].exists
            /\ Existing(f) = { "", ".bk" }

C8_Witness ==
    /\ w_mode = "Overwrite" /\ Len(w_done) = 2 /\ w_style = "Windows"
    /\ \A f \in Range(w_done) : fs0[Path(f, ".bk")].exists /\ file_map[f] # <<>>

\* C9: in Overwrite mode, when creating or writing the temporary file fails,
\* write_file returns the error and neither rename has happened: the original
\* is there with its content and name.bk is as it was before the call.
C9_TempFailureLeavesOriginal ==
    (w_mode = "Overwrite" /\ w_failed \in {"create", "write"}) =>
        /\ w_pc = "done" /\ w_ret.kind = "err"
        /\ fs[Path(w_cur, "")] = FileOf(Orig(w_cur))
        /\ fs[Path(w_cur, ".bk")] = fs1[Path(w_cur, ".bk")]

C9_Witness ==
    /\ w_mode = "Overwrite" /\ w_failed = "write"
    /\ fs[Path(w_cur, ".tmp")].data # <<>>
    /\ ~fs[Path(w_cur, ".bk")].exists

\* File f is as write_file left it after returning Ok.
Finalized(f) ==
    CASE w_mode = "Overwrite" ->
            /\ fs[Path(f, "")] = FileOf(write_system_newlines(file_map[f], w_style))
            /\ fs[Path(f, ".bk")] = FileOf(Orig(f))
      [] w_mode = "NewFile" ->
            fs[Path(f, ".new")] = FileOf(write_system_newlines(file_map[f], w_style))
      [] w_mode = "Display" -> \E x \in Range(stdout) : x[1] = "txt" /\ x[2] = f
      [] w_mode = "Return"  -> \E q \in w_result : q[1] = f

\* Nothing of file f has been touched.
Untouched(f) ==
    /\ \A x \in Suffixes : fs[Path(f, x)] = fs0[Path(f, x)]
    /\ \A x \in Range(stdout) : x[2] # f
    /\ \A q \in w_result : q[1] # f

\* C10: when a write_file fails, write_all_files returns that error at once: it
\* is over, it returns Err and no mapping, no file after the failed one has
\* been touched, and the files finalized before it stay finalized.
C10_FirstErrorAborts ==
    /\ w_failed # "" =>
          /\ w_pc = "done" /\ w_ret = [kind |-> "err", map |-> {}]
          /\ \A f \in w_todo : Untouched(f)
          /\ \A f \in Range(w_done) : Finalized(f)
    /\ w_ret.kind = "err" => w_failed # ""
    /\ w_pc \notin {"loop", "done", "idle"} => \A f \in w_todo : Untouched(f)

C10_Witness ==
    /\ w_ret.kind = "err" /\ w_mode = "Overwrite" /\ w_failed = "rename2"
    /\ Len(w_done) = 1 /\ Cardinality(w_todo) = 1

\* C1: every original offset before the cursor has reached the buffer exactly
\* once, as part of a flushed gap or of a written span, and no offset at or
\* after the cursor has: no offset is skipped by a cursor jump, none is
\* emitted twice.
C1_Coverage ==
    v_status = "ok" =>
        \A o \in Offsets :
            /\ o < last_pos => cover[o] \in {"gap", "node"}
            /\ o >= last_pos => cover[o] = "none"

\* C2: every assignment to last_pos sets it to a value >= the value it had:
\* the values the cursor takes during a handler, from the one it had on entry,
\* never decrease.
C2_CursorMonotone ==
    \A i \in 1..(Len(steps) - 1) : steps[i] <= steps[i + 1]

\* A function with attributes has just been entered: visit_attrs, the two
\* assignments of visit_fn and the step over the brace all moved the cursor.
C2_Witness ==
    /\ Ctx = "block" /\ Len(steps) = 7
    /\ last_pos = steps[Len(steps)] /\ last_pos > steps[1] + 2

\* C5: an item, trait item or impl item one of whose attributes is the skip
\* marker is reported suppressed, is not descended into, and none of its
\* offsets, attributes included, reaches the buffer as written text.
C5_SkipFidelity ==
    /\ last_visit.marked => (last_visit.suppressed /\ last_visit.returned)
    /\ \A o \in marked : cover[o] \notin {"node", "dup"}

\* C6: block_indent after a visit of a block, module, trait or impl equals
\* block_indent before it, at any depth; a visit that returns early because of
\* a skip marker leaves it unchanged; it is never decremented below zero.
C6_IndentBalance ==
    /\ last_exit.before = last_exit.after
    /\ last_visit.returned => last_visit.before = last_visit.after
    /\ v_status # "underflow"
    /\ block_indent >= 0

\* A skipped item inside a scope, after a nested block and scope were left.
C6_Witness ==
    /\ last_exit.n = 2 /\ last_visit.suppressed /\ Len(stack) = 1
    /\ block_indent = TabSpaces

\* C11: in Return mode write_all_files touches neither the file system nor
\* stdout and returns a mapping whose keys are exactly the file names of the
\* buffer store, each with its newline-rendered buffer; in the other modes the
\* mapping returned is empty.
C11_ReturnMapping ==
    /\ w_mode = "Return" =>
          /\ fs = fs0 /\ stdout = <<>>
          /\ w_ret.kind # "err"
          /\ w_ret.kind = "ok" =>
                w_ret.map = { <<f, write_system_newlines(file_map[f], w_style)>> :
                                f \in DOMAIN file_map }
    /\ (w_pc \notin {"idle"} /\ w_mode # "Return" /\ w_ret.kind = "ok") => w_ret.map = {}

C11_Witness ==
    /\ w_mode = "Return" /\ w_style = "Windows" /\ w_ret.kind = "ok"
    /\ Cardinality(w_ret.map) = 3
    /\ \E q \in w_ret.map : q[2] # file_map[q[1]]

IsPrefix(s, t) == Len(s) <= Len(t) /\ SubSeq(t, 1, Len(s)) = s

\* C12: buffers are append-only: push_str and push_str_span change the owning
\* file's buffer from old to old ++ text and leave every other buffer as it
\* was; over every operation each buffer before it is a prefix of the buffer
\* after it (so an earlier content is a prefix of every later one), and the
\* file names stay those of the construction.
C12_AppendOnly ==
    /\ DOMAIN file_map = CodeMapNames
    /\ b_last.op # "none" =>
          /\ DOMAIN b_last.before = DOMAIN file_map
          /\ \A f \in DOMAIN file_map : IsPrefix(b_last.before[f], file_map[f])
    /\ (b_last.op \in {"push_str", "push_str_span"} /\ b_last.res = "ok") =>
          /\ file_map[b_last.name] = b_last.before[b_last.name] \o b_last.text
          /\ \A f \in DOMAIN file_map \ {b_last.name} : file_map[f] = b_last.before[f]

C12_Witness ==
    /\ b_last.op = "push_str_span" /\ b_last.name = "b" /\ Len(b_last.text) = 2
    /\ b_last.before["b"] # <<>> /\ file_map["a"] # <<>>
    /\ file_map["b"] # b_last.text

\* C13: push_str, get_mut and cur_offset with a file name that is no key of the
\* buffer store fail fast: the call does not return normally, no entry is made
\* for the name and no buffer is modified.
C13_UnknownFileFailsFast ==
    (b_last.op \in {"push_str", "get_mut", "cur_offset"}
        /\ b_last.name \notin DOMAIN b_last.before) =>
        /\ b_last.res = "panic"
        /\ file_map = b_last.before

C13_Witness ==
    /\ b_last.op = "cur_offset" /\ b_last.name = "z" /\ b_last.res = "panic"
    /\ file_map["a"] # <<>>

\* C14: filespans_for_span never returns a zero-length or inverted piece; a
\* span with lo = hi gives the empty list for every index, and the empty index
\* gives the empty list for every span.
C14_NoEmptyPieces ==
    /\ Returned => \A i \in 1..Len(Pieces) : Pieces[i][1] < Pieces[i][2]
    /\ (q_pc = "ret" /\ q_lo = q_hi) => (q_ret.res = "ok" /\ Pieces = <<>>)
    /\ (q_pc = "ret" /\ file_spans = <<>> /\ q_lo <= q_hi) =>
          (q_ret.res = "ok" /\ Pieces = <<>>)

\* A zero-length span that starts at the end of an empty first file.
C14_Witness ==
    /\ Returned /\ q_lo = q_hi /\ q_lo = 0 /\ Len(file_spans) = 2
    /\ file_spans[1] = <<0, 0>> /\ file_spans[2][1] > 0 /\ Pieces = <<>>

\* C15: filespans_for_span with lo > hi fails its assertion for every index,
\* the empty one included, and returns no piece list.
C15_InvertedSpanAsserts ==
    (q_pc = "ret" /\ q_lo > q_hi) => (q_ret.res = "assert" /\ ~Returned)

C15_Witness ==
    q_pc = "ret" /\ q_lo > q_hi /\ file_spans = <<>> /\ q_ret.res = "assert"

\* C19: for every index and every span with lo <= hi the loop ends after at
\* most one iteration per entry of the index, every file_spans[idx] is inside
\* the vector, and cur_file.1 - 1 is never computed for a cur_file.1 of 0.
C19_LoopBounded ==
    (q_pc = "ret" /\ q_lo <= q_hi) =>
        /\ q_ret.res \notin {"oob", "overflow"}
        /\ q_ret.iters <= Len(file_spans)
        /\ ~q_ret.under

\* The events of a flush from `from` to `to`: none when the gap is empty.
Flushed(from, to) ==
    IF from < to THEN << <<"flush", from, to>> >> ELSE <<>>

FlushedIndented(from, to, ind) ==
    IF from < to THEN << <<"flush_indent", from, to, ind>> >> ELSE <<>>

IsAct(e) == e[1] # "budget"

After(i) == SelectSeq(SubSeq(events, i + 1, Len(events)), IsAct)

\* C16: visit_block does its steps in this order: the gap up to the block's
\* start is flushed, "{" is appended and the cursor advances by one, the indent
\* is raised by one unit; after the statements the gap before the trailing
\* expression is flushed and the expression visited, the indent is lowered, the
\* gap up to the closing brace (block end - 1) is flushed at the lowered
\* indent, "}" is appended and the cursor is the block's end.  Each block so
\* has one "{" before and one "}" after the text of its children.
C16_BlockOrder ==
    v_status = "ok" =>
        \A i \in 1..Len(events) :
            /\ events[i][1] = "visit_block" =>
                  LET lo  == events[i][2]
                      p   == events[i][4]
                      ind == events[i][5]
                  IN  /\ After(i) = Flushed(p, lo) \o
                                      << <<"push", lo, lo + 1>>,
                                         <<"cursor", lo + 1>>,
                                         <<"indent", ind + TabSpaces>> >>
                      /\ last_pos = lo + 1
                      /\ block_indent = ind + TabSpaces
                      /\ cover[lo] = "node"
            /\ events[i][1] = "stmts_done" =>
                  LET lo  == events[i][2]
                      hi  == events[i][3]
                      e   == events[i][4]
                      p0  == events[i][5]
                      ind == events[i][6]
                      p1  == IF e = <<>> THEN p0 ELSE e[2]
                      tail == IF e = <<>> THEN <<>>
                              ELSE FlushedIndented(p0, e[1], ind) \o
                                   << <<"push", e[1], e[2]>>, <<"cursor", e[2]>> >>
                  IN  /\ After(i) = tail \o
                                      << <<"indent", ind - TabSpaces>> >> \o
                                      FlushedIndented(p1, hi - 1, ind - TabSpaces) \o
                                      << <<"push", hi - 1, hi>>, <<"cursor", hi>> >>
                      /\ last_pos = hi
                      /\ block_indent = ind - TabSpaces
                      /\ cover[lo] = "node" /\ cover[hi - 1] = "node"

\* A block with a trailing expression has been left; the gap before the
\* expression and the gap before the closing brace were both flushed.
C16_Witness ==
    /\ v_status = "ok" /\ stack = <<>> /\ Len(After(0)) = 8
    /\ After(0)[1][1] = "stmts_done" /\ After(0)[1][4] # <<>>
    /\ After(0)[2][1] = "flush_indent" /\ After(0)[6][1] = "flush_indent"
    /\ After(0)[7][1] = "push"
    /\ block_indent = 0

\* C17: in Overwrite mode, at every step of write_file and after a failure of
\* any step, what each file held before formatting is on disk under the
\* original name or under name.bk; and no file exists under the original name
\* only between the first rename and the second.
C17_OriginalNeverLost ==
    (w_mode = "Overwrite" /\ w_pc # "idle") =>
        \A f \in DOMAIN file_map :
            /\ \/ fs[Path(f, "")] = FileOf(Orig(f))
               \/ fs[Path(f, ".bk")] = FileOf(Orig(f))
            /\ ~fs[Path(f, "")].exists =>
                  /\ f = w_cur
                  /\ w_pc = "rename2" \/ w_failed = "rename2"
                  /\ fs[Path(f, ".bk")] = FileOf(Orig(f))

\* The second rename failed: nothing is under the original name, the backup
\* holds the original and the new text is still in the temporary file.
C17_Witness ==
    /\ w_mode = "Overwrite" /\ w_failed = "rename2" /\ w_pc = "done"
    /\ ~fs[Path(w_cur, "")].exists
    /\ fs[Path(w_cur, ".bk")] = FileOf(Orig(w_cur))
    /\ fs[Path(w_cur, ".tmp")].exists
    /\ fs0[Path(w_cur, ".bk")].exists

\* C18: the width budgets never go below zero: max_width minus the buffer's
\* column in visit_expr, and max_width minus block_indent and ideal_width minus
\* block_indent for a list-form use declaration, at every nesting depth.
C18_BudgetsNonNegative ==
    \A i \in 1..Len(events) : events[i][1] = "budget" => events[i][2] >= 0

\* What the attributes from the i-th on are emitted as when every gap becomes
\* one line break and the indent, with a blank line before a doc comment whose
\* gap held more than one line feed.
RECURSIVE CompactedFrom(_, _, _, _)
CompactedFrom(kinds, gaps, indent, i) ==
    IF i > Len(kinds) THEN <<>>
    ELSE (IF i = 1 THEN <<>>
          ELSE <<"\n">>
                 \o (IF kinds[i] = "doc" /\ newlines(gaps[i]) > 1 THEN <<"\n">> ELSE <<>>)
                 \o make_indent(indent))
         \o a_str(i) \o CompactedFrom(kinds, gaps, indent, i + 1)

\* C20: when no attribute is the skip marker, rewrite_attrs emits every
\* attribute's text verbatim and in order, with a blank line between two
\* attributes only if the second is a doc comment and the gap held more than one
\* line feed, and otherwise the gap reduced to one line break and the indent;
\* visit_attrs then has the cursor at the last attribute's end and reports not
\* suppressed; for an empty list it reports not suppressed, writes nothing and
\* leaves the cursor.
C20_AttrsCompacted ==
    a_call.pc = "ret" =>
        LET n == Len(a_call.kinds)
            spans == attr_spans(a_call.kinds, a_call.gaps, 1, a_call.lead)
        IN  /\ (n > 0 /\ \A i \in 1..n : a_call.kinds[i] # "skip") =>
                  /\ ~a_call.skip
                  /\ a_call.text = CompactedFrom(a_call.kinds, a_call.gaps, a_call.indent, 1)
                  /\ a_call.last_pos = spans[n].hi
            /\ n = 0 =>
                  /\ ~a_call.skip /\ a_call.ev = <<>> /\ a_call.last_pos = 0

\* C21: visit_mod on a module whose body is in another file than its
\* declaration returns without visiting a child and leaves the cursor and the
\* buffers as they were; the children of a module whose declaration and body
\* are in the same file are traversed.
C21_ExternalModNotWalked ==
    v_status = "ok" =>
        \A i \in 1..Len(events) :
            events[i][1] = "visit_mod" =>
                IF events[i][2]
                THEN /\ Len(stack) = events[i][4] + 1
                     /\ Ctx = "mod"
                ELSE /\ Len(stack) = events[i][4]
                     /\ After(i) = <<>>
                     /\ last_pos = events[i][3]
                     /\ cover = events[i][5]

\* A module in another file was visited inside an inline module, after text
\* had been written.
C21_Witness ==
    /\ v_status = "ok" /\ Len(events) = 1 /\ events[1][1] = "visit_mod"
    /\ ~events[1][2] /\ Ctx = "mod" /\ last_pos > 0
    /\ \E o \in Offsets : cover[o] = "node"

====
